---- MODULE Spec2Model ----
(***************************************************************************)
(* videochat-withme, scripts/server.py: the media pipeline of one /api/chat *)
(* request (transcode, transcribe, reply, synthesize), its retry/fallback  *)
(* ladder and the temporary files it names.                                *)
(*                                                                         *)
(* Strings are sequences of one-character strings.  A character outside    *)
(* ASCII is written by its code point ("u3002" is the ideographic full     *)
(* stop).                                                                  *)
(***************************************************************************)
EXTENDS Integers, Sequences, FiniteSets, TLC

VARIABLES
    turn,       \* per request: the locals of its chat() handler invocation
    fs,         \* AUDIO_DIR: file name -> file (the names that exist)
    running,    \* the handler that holds the event loop thread, or NoTurn
    touched,    \* every <<turn, role, name>> a handler addressed in AUDIO_DIR
    call        \* one call of a pure helper: its arguments and its result

vars == <<turn, fs, running, touched, call>>

(***************************************************************************)
(* Bounds of the model.                                                    *)
(***************************************************************************)
MaxTextLen == 5     \* longest text handed to _split_text on its own
MaxMaxLen == 3      \* largest max_len handed to _split_text on its own
MaxSttLen == 1      \* longest text field of a transcription response
MaxReplyLen == 1    \* longest short content field of a chat-completion response
SentenceLen == 120  \* length of one sentence of the long replies
MaxTurns == 2       \* requests in flight together
IdLen == 4          \* hexadecimal digits of a request identifier (uuid4().hex has 32)

(***************************************************************************)
(* _split_text (server.py 296-320)                                         *)
(***************************************************************************)
DefaultMaxLen == 200

\* the character class of the split pattern: [。！？.!?\n]
Terminators == {"u3002", "uFF01", "uFF1F", ".", "!", "?", "\n"}

\* the positions of the terminators, and the k-th of them
Cuts(text) == { j \in 1..Len(text) : text[j] \in Terminators }
CutAt(text, k) ==
    LET cuts == Cuts(text) IN
    IF k = 0 THEN 0
    ELSE IF k > Cardinality(cuts) THEN Len(text)
    ELSE CHOOSE j \in cuts : Cardinality({ c \in cuts : c <= j }) = k

\* a split that consumes the terminator instead of looking behind it
ReSplitConsuming(text) ==
    [k \in 1..(Cardinality(Cuts(text)) + 1) |->
        SubSeq(text, CutAt(text, k - 1) + 1,
               IF k > Cardinality(Cuts(text)) THEN Len(text)
               ELSE CutAt(text, k) - 1)]

\* re.split(r'(?<=[...])', text): cut after every terminator; the piece after
\* the last cut is kept even when it is empty
ReSplit(text) ==
    [k \in 1..(Cardinality(Cuts(text)) + 1) |->
        SubSeq(text, CutAt(text, k - 1) + 1, CutAt(text, k))]

\* the loop of lines 303-312: greedy packing of the sentences
RECURSIVE Pack(_, _, _, _, _)
Pack(sentences, k, chunks, current, max_len) ==
    IF k > Len(sentences)
    THEN IF current # <<>> THEN Append(chunks, current) ELSE chunks
    ELSE LET s == sentences[k] IN
         IF s = <<>> THEN Pack(sentences, k + 1, chunks, current, max_len)
         ELSE IF Len(current) + Len(s) > max_len /\ current # <<>>
              THEN Pack(sentences, k + 1, Append(chunks, current), s, max_len)
              ELSE Pack(sentences, k + 1, chunks, current \o s, max_len)

\* the while loop of lines 315-319 for one chunk
RECURSIVE SliceChunk(_, _)
SliceChunk(chunk, max_len) ==
    IF Len(chunk) > max_len
    THEN << SubSeq(chunk, 1, max_len) >>
         \o SliceChunk(SubSeq(chunk, max_len + 1, Len(chunk)), max_len)
    ELSE IF chunk # <<>> THEN << chunk >> ELSE << >>

RECURSIVE SliceAll(_, _, _)
SliceAll(chunks, k, max_len) ==
    IF k > Len(chunks) THEN << >>
    ELSE SliceChunk(chunks[k], max_len) \o SliceAll(chunks, k + 1, max_len)

\* _split_text without its fast path of lines 298-299
SplitTextNoFastPath(text, max_len) ==
    SliceAll(Pack(ReSplit(text), 1, << >>, << >>, max_len), 1, max_len)

SplitText(text, max_len) ==
    IF Len(text) <= max_len THEN << text >>
    ELSE SliceAll(Pack(ReSplit(text), 1, << >>, << >>, max_len), 1, max_len)

RECURSIVE Concat(_, _)
Concat(seqs, k) == IF k > Len(seqs) THEN << >> ELSE seqs[k] \o Concat(seqs, k + 1)

(***************************************************************************)
(* Strings: str.strip(), str(int), substring                               *)
(***************************************************************************)
\* the characters str.strip() removes (those that occur in the model)
Whitespace == {" ", "\t", "\n", "\r", "\f", "u000B", "u3000"}

RECURSIVE LStrip(_)
LStrip(s) == IF s # << >> /\ Head(s) \in Whitespace THEN LStrip(Tail(s)) ELSE s

RECURSIVE RStrip(_)
RStrip(s) ==
    IF s # << >> /\ s[Len(s)] \in Whitespace
    THEN RStrip(SubSeq(s, 1, Len(s) - 1)) ELSE s

Strip(s) == RStrip(LStrip(s))

DecimalDigits == <<"0", "1", "2", "3", "4", "5", "6", "7", "8", "9">>

\* str(n) of a natural number, as the f-strings format it
RECURSIVE Str(_)
Str(n) ==
    IF n < 10 THEN << DecimalDigits[n + 1] >>
    ELSE Str(n \div 10) \o << DecimalDigits[(n % 10) + 1] >>

Contains(text, sub) ==
    \E k \in 0..(Len(text) - Len(sub)) : SubSeq(text, k + 1, k + Len(sub)) = sub

(***************************************************************************)
(* What an HTTP call can come back with.  A JSON field is a string, null,  *)
(* absent, or something else that is no string ("other").                  *)
(***************************************************************************)
JStr(s) == [type |-> "str", val |-> s]
JNull == [type |-> "null", val |-> << >>]
JMissing == [type |-> "missing", val |-> << >>]
JOther == [type |-> "other", val |-> << >>]

HttpResponse(status, body) ==
    [kind |-> "response", status |-> status, body |-> body, msg |-> << >>]
HttpTimeout == [kind |-> "timeout", status |-> 0, body |-> JMissing, msg |-> << >>]
HttpError(msg) == [kind |-> "error", status |-> 0, body |-> JMissing, msg |-> msg]

(***************************************************************************)
(* transcribe_audio (server.py 170-185)                                    *)
(***************************************************************************)
BlankRecording ==
    <<"[", "u7A7A", "u767D", "u5F55", "u97F3", "]" >>

SttErrorPrefix ==
    <<"[", "S", "T", "T", " ", "e", "r", "r", "o", "r", ":", " " >>

\* str(e) of the AttributeError that None.strip() raises
NoStripAttribute ==
    <<"n", "o", " ", "a", "t", "t", "r", "i", "b", "u", "t", "e", " ",
      "'", "s", "t", "r", "i", "p", "'" >>

SttError(msg) == SttErrorPrefix \o msg \o <<"]">>

\* transcribe_audio that tests the text before stripping it
TranscribeAudioUnstripped(o) ==
    IF o.kind = "response"
    THEN IF o.status = 200
         THEN IF o.body.type = "str"
              THEN IF o.body.val # << >> THEN Strip(o.body.val) ELSE BlankRecording
              ELSE IF o.body.type = "missing" THEN BlankRecording
              ELSE SttError(NoStripAttribute)
         ELSE SttError(Str(o.status))
    ELSE SttError(o.msg)

\* the value transcribe_audio returns when the transcription call ends with o
TranscribeAudio(o) ==
    IF o.kind = "response"
    THEN IF o.status = 200
         THEN IF o.body.type \in {"str", "missing"}
              THEN LET text == Strip(o.body.val) IN        \* .get("text", "").strip()
                   IF text # << >> THEN text ELSE BlankRecording
              ELSE SttError(NoStripAttribute)              \* except Exception
         ELSE SttError(Str(o.status))
    ELSE SttError(o.msg)                                   \* except Exception

(***************************************************************************)
(* get_openclaw_reply (server.py 191-257)                                  *)
(***************************************************************************)
SpacedOut ==
    <<"H", "m", "m", ".", ".", ".", " ", "I", " ", "s", "p", "a", "c", "e",
      "d", " ", "o", "u", "t", " ", "f", "o", "r", " ", "a", " ", "m", "o",
      "m", "e", "n", "t", "." >>

BrainGlitched ==
    <<"I", " ", "h", "e", "a", "r", "d", " ", "y", "o", "u", ",", " ", "b",
      "u", "t", " ", "m", "y", " ", "b", "r", "a", "i", "n", " ", "g", "l",
      "i", "t", "c", "h", "e", "d", " ", "f", "o", "r", " ", "a", " ", "s",
      "e", "c", ".", ".", "." >>

HeardPrefix ==
    <<"I", " ", "h", "e", "a", "r", "d", ":", " " >>

TookTooLong ==
    <<".", ".", ".", " ", "b", "u", "t", " ", "I", " ", "t", "o", "o", "k",
      " ", "t", "o", "o", " ", "l", "o", "n", "g", " ", "t", "h", "i", "n",
      "k", "i", "n", "g", ",", " ", "s", "o", "r", "r", "y", "!" >>

ConnectionIssue ==
    <<" ", "(", "c", "o", "n", "n", "e", "c", "t", "i", "o", "n", " ", "i",
      "s", "s", "u", "e", ")" >>

\* get_openclaw_reply whose timeout handler answers with the fixed apology only
OpenclawReplyNoEcho(o, transcript) ==
    IF o.kind = "response"
    THEN IF o.status = 200
         THEN IF o.body.type = "str"
              THEN IF o.body.val # << >> THEN Strip(o.body.val) ELSE SpacedOut
              ELSE IF o.body.type \in {"null", "missing"} THEN SpacedOut
              ELSE HeardPrefix \o transcript \o ConnectionIssue
         ELSE BrainGlitched
    ELSE IF o.kind = "timeout"
         THEN TookTooLong
         ELSE HeardPrefix \o transcript \o ConnectionIssue

\* the value get_openclaw_reply returns when the chat-completion call ends with o
OpenclawReply(o, transcript) ==
    IF o.kind = "response"
    THEN IF o.status = 200                                        \* line 245
         THEN IF o.body.type = "str"
              THEN IF o.body.val # << >>                          \* `if text`
                   THEN Strip(o.body.val) ELSE SpacedOut          \* line 248
              ELSE IF o.body.type \in {"null", "missing"} THEN SpacedOut
              ELSE HeardPrefix \o transcript \o ConnectionIssue   \* lines 255-257
         ELSE BrainGlitched                                       \* line 251
    ELSE IF o.kind = "timeout"
         THEN HeardPrefix \o transcript \o TookTooLong            \* line 254
         ELSE HeardPrefix \o transcript \o ConnectionIssue        \* line 257

(***************************************************************************)
(* File names in AUDIO_DIR (pathlib: stem, with_suffix, with_name)         *)
(***************************************************************************)
HexDigits == <<"1", "2", "3", "4", "5", "6", "7", "8", "9",
               "a", "b", "c", "d", "e", "f">>

\* uuid.uuid4().hex, IdLen hexadecimal digits of it: the k-th identifier
Uuid(k) == [j \in 1..IdLen |-> IF j = IdLen THEN HexDigits[k] ELSE "0"]

WebmSuffix == <<".", "w", "e", "b", "m" >>
JpgSuffix == <<".", "j", "p", "g" >>
WavSuffix == <<".", "w", "a", "v" >>
ReplySuffix == <<"_", "r", "e", "p", "l", "y", ".", "m", "p", "3" >>
PartInfix == <<"_", "p", "a", "r", "t" >>
Mp3Suffix == <<".", "m", "p", "3" >>
TxtSuffix == <<".", "t", "x", "t" >>
AudioUrlPrefix == <<"/", "a", "u", "d", "i", "o", "/" >>

LastDot(name) ==
    LET dots == { j \in 1..Len(name) : name[j] = "." } IN
    IF dots = {} THEN 0 ELSE CHOOSE j \in dots : \A d \in dots : d <= j

\* PurePath.stem: the name without its last suffix
Stem(name) ==
    LET d == LastDot(name) IN
    IF d <= 1 \/ d = Len(name) THEN name ELSE SubSeq(name, 1, d - 1)

WithSuffix(name, suffix) == Stem(name) \o suffix

AudioPath(req_id) == req_id \o WebmSuffix                 \* line 114
ImagePath(req_id) == req_id \o JpgSuffix                  \* line 122
\* a normalized waveform named without the request identifier
WavPathShared(req_id) == <<"a", "u", "d", "i", "o">> \o WavSuffix

WavPath(req_id) == req_id \o WavSuffix                    \* line 126
ReplyFilename(req_id) == req_id \o ReplySuffix            \* line 146

\* a part-file named without the index of its chunk
PartPathNoIndex(output_path, i) == Stem(output_path) \o PartInfix \o Mp3Suffix

PartPath(output_path, i) ==                               \* line 337
    Stem(output_path) \o PartInfix \o Str(i) \o Mp3Suffix

ListFile(output_path) == WithSuffix(output_path, TxtSuffix)   \* line 347

(***************************************************************************)
(* Files, and what a run of an external tool can do                        *)
(***************************************************************************)
MinAudioBytes == 1000
MaxRetries == 3
SilentSampleRate == 16000

\* a file that is no RIFF container carries no header
NoHeader == << >>

File(kind, size) == [kind |-> kind, size |-> size, hdr |-> NoHeader, lines |-> << >>]

\* the concat manifest: one line per part-file
Manifest(part_paths) ==
    [kind |-> "manifest", size |-> Len(part_paths), hdr |-> NoHeader,
     lines |-> part_paths]

\* the last-resort writer with the RIFF size counting samples instead of bytes
SilentWavFileSampleCount ==
    LET sr == SilentSampleRate
        n == sr \div 2
        ds == n * 2
    IN  [kind |-> "silent_wav", size |-> 12 + 24 + 8 + ds, lines |-> << >>,
         hdr |-> [riff |-> "RIFF", wave |-> "WAVE", riff_size |-> 36 + n,
                  fmt_size |-> 16, format |-> 1, channels |-> 1,
                  sample_rate |-> sr, byte_rate |-> sr * 2, block_align |-> 2,
                  bits |-> 16, data_size |-> ds]]

\* lines 396-402: sr, dur = 16000, 0.5; n = int(sr * dur); ds = n * 2
SilentWavFile ==
    LET sr == SilentSampleRate
        n == sr \div 2
        ds == n * 2
    IN  [kind |-> "silent_wav", size |-> 12 + 24 + 8 + ds, lines |-> << >>,
         hdr |-> [riff |-> "RIFF", wave |-> "WAVE", riff_size |-> 36 + ds,
                  fmt_size |-> 16, format |-> 1, channels |-> 1,
                  sample_rate |-> sr, byte_rate |-> sr * 2, block_align |-> 2,
                  bits |-> 16, data_size |-> ds]]

\* one subprocess.run: the tool exits with rc, or the run times out, or the
\* binary is absent, or the run raises something else; the tool may have
\* written `size` bytes to its output path before that
ToolExit(rc, wrote, size) == [kind |-> "exit", rc |-> rc, wrote |-> wrote, size |-> size]
ToolTimeout(wrote, size) == [kind |-> "timeout", rc |-> 0, wrote |-> wrote, size |-> size]
ToolNotFound == [kind |-> "notfound", rc |-> 0, wrote |-> FALSE, size |-> 0]
ToolError == [kind |-> "error", rc |-> 0, wrote |-> FALSE, size |-> 0]

WriteBy(files, path, o, kind) ==
    IF o.wrote THEN (path :> File(kind, o.size)) @@ files ELSE files

Unlink(files, paths) == [n \in (DOMAIN files) \ paths |-> files[n]]

Exists(files, path) == path \in DOMAIN files
SizeOf(files, path) == IF path \in DOMAIN files THEN files[path].size ELSE 0
Range(seq) == { seq[k] : k \in 1..Len(seq) }

\* the test of line 280 without the size threshold
AttemptSucceededAnySize(rc, exists, size) == rc = 0 /\ exists

\* line 280
AttemptSucceeded(rc, exists, size) == rc = 0 /\ exists /\ size > MinAudioBytes

\* the test of line 360 without the size threshold
ConcatSucceededAnySize(rc, exists, size) == rc = 0 /\ exists

\* line 360
ConcatSucceeded(rc, exists, size) == rc = 0 /\ exists /\ size > MinAudioBytes

\* line 390
SilentAccepted(exists, size) == exists /\ size > 0

\* _run_edge_tts that keeps trying until the attempts run out
RunEdgeTtsStepNoEarlyReturn(kind, ok, attempt, max_retries) ==
    IF kind = "notfound" THEN "return_false"
    ELSE IF attempt < max_retries THEN "retry"
    ELSE IF ok THEN "return_true" ELSE "return_false"

\* _run_edge_tts whose loop runs one attempt more than max_retries
RunEdgeTtsStepOneMore(kind, ok, attempt, max_retries) ==
    IF ok THEN "return_true"
    ELSE IF kind = "notfound" THEN "return_false"
    ELSE IF attempt <= max_retries THEN "retry"
    ELSE "return_false"

\* _run_edge_tts that treats an absent binary like any other failure
RunEdgeTtsStepRetryNotFound(kind, ok, attempt, max_retries) ==
    IF ok THEN "return_true"
    ELSE IF attempt < max_retries THEN "retry"
    ELSE "return_false"

\* what _run_edge_tts does after one attempt (lines 280-293)
RunEdgeTtsStep(kind, ok, attempt, max_retries) ==
    IF ok THEN "return_true"
    ELSE IF kind = "notfound" THEN "return_false"
    ELSE IF attempt < max_retries THEN "retry"
    ELSE "return_false"

\* the response of lines 150-154
ChatResponse(reply_text, reply_filename, transcription) ==
    [text |-> reply_text, audio_url |-> AudioUrlPrefix \o reply_filename,
     transcription |-> transcription]

(***************************************************************************)
(* A call of _split_text on its own: any text over a small alphabet, any   *)
(* max_len from 1.                                                         *)
(***************************************************************************)
SplitAlphabet == {"a", "b", ".", "\n"}
SplitTexts == UNION { [1..n -> SplitAlphabet] : n \in 0..MaxTextLen }

NoTurn == << >>
NoCall ==
    [fn |-> "none", text |-> << >>, max_len |-> 0, outcome |-> HttpTimeout,
     result |-> << >>, done |-> TRUE]

InitSplit ==
    /\ turn = << >>
    /\ fs = << >>
    /\ running = NoTurn
    /\ touched = {}
    /\ \E text \in SplitTexts, max_len \in 1..MaxMaxLen :
          call = [fn |-> "_split_text", text |-> text, max_len |-> max_len,
                  outcome |-> HttpTimeout, result |-> << >>, done |-> FALSE]

SplitTextCall ==
    /\ call.fn = "_split_text"
    /\ ~call.done
    /\ call' = [call EXCEPT !.result = SplitText(call.text, call.max_len),
                            !.done = TRUE]
    /\ UNCHANGED <<turn, fs, running, touched>>

NextSplit == SplitTextCall

SpecSplit == InitSplit /\ [][NextSplit]_vars

(***************************************************************************)
(* What the two services can answer                                        *)
(***************************************************************************)
SttTexts == UNION { [1..n -> {"h", " "}] : n \in 0..MaxSttLen }
SttOutcomes ==
    { HttpResponse(200, JStr(s)) : s \in SttTexts }
    \cup { HttpResponse(200, JNull), HttpResponse(200, JMissing),
           HttpResponse(500, JMissing), HttpError(<< >>) }

Sentence == [j \in 1..SentenceLen |-> IF j = SentenceLen THEN "." ELSE "a"]
LongReplies == { Sentence \o Sentence, Sentence \o Sentence \o Sentence }
ShortReplies == UNION { [1..n -> {"o", " "}] : n \in 0..MaxReplyLen }
ReplyOutcomes ==
    { HttpResponse(200, JStr(s)) : s \in ShortReplies \cup LongReplies }
    \cup { HttpResponse(200, JNull), HttpResponse(200, JMissing),
           HttpResponse(200, JOther), HttpResponse(500, JMissing),
           HttpTimeout, HttpError(<< >>) }

(***************************************************************************)
(* A call of get_openclaw_reply on its own: any transcript transcribe_audio *)
(* can return, any end of the chat-completion call.                        *)
(***************************************************************************)
InitReply ==
    /\ turn = << >>
    /\ fs = << >>
    /\ running = NoTurn
    /\ touched = {}
    /\ \E so \in SttOutcomes, o \in ReplyOutcomes :
          call = [fn |-> "get_openclaw_reply", text |-> TranscribeAudio(so),
                  max_len |-> 0, outcome |-> o, result |-> << >>, done |-> FALSE]

OpenclawReplyCall ==
    /\ call.fn = "get_openclaw_reply"
    /\ ~call.done
    /\ call' = [call EXCEPT !.result = OpenclawReply(call.outcome, call.text),
                            !.done = TRUE]
    /\ UNCHANGED <<turn, fs, running, touched>>

NextReply == OpenclawReplyCall

SpecReply == InitReply /\ [][NextReply]_vars

(***************************************************************************)
(* One /api/chat request: chat() (server.py 103-154) and generate_tts      *)
(* (323-375) as a step machine.  pc is the handler's position:             *)
(*   idle          the request has not arrived                             *)
(*   read_audio    suspended in `await audio.read()`         (line 115)    *)
(*   read_image    suspended in `await image.read()`         (line 120)    *)
(*   transcode     about to run ffmpeg                       (line 128)    *)
(*   stt_call      about to call transcribe_audio            (line 140)    *)
(*   stt_pending   inside the blocking httpx.post            (line 173)    *)
(*   reply_pending suspended in `await client.post`          (line 239)    *)
(*   tts           about to call generate_tts                (line 148)    *)
(*   edge_tts      inside _run_edge_tts, before an attempt   (line 269)    *)
(*   run_ret       _run_edge_tts has returned run_ok         (330, 338)    *)
(*   concat        all parts synthesized                     (line 345)    *)
(*   concat_run    manifest written, about to run ffmpeg     (line 352)    *)
(*   silence       about to call _write_silent_mp3           (line 375)    *)
(*   silent_wav    about to write the silent WAV             (line 396)    *)
(*   tts_done      generate_tts has returned                 (line 150)    *)
(*   delivered     chat() has returned its response                        *)
(*   aborted       chat() was left by an exception: no response, HTTP 500  *)
(* The handlers are coroutines of one event loop: a handler that runs      *)
(* keeps the thread until it suspends in an await.                         *)
(***************************************************************************)
NoResponse == [text |-> << >>, audio_url |-> << >>, transcription |-> << >>]
NoAttempt == [kind |-> "none", rc |-> 0, exists |-> FALSE, size |-> 0]

IdleTurn ==
    [pc |-> "idle", req_id |-> << >>, image |-> "none", wav_path |-> << >>,
     transcription |-> << >>, reply_arg |-> << >>, reply_text |-> << >>,
     output_path |-> << >>, n_chunks |-> 0, i |-> 0, part_paths |-> << >>,
     attempt |-> 0, last |-> NoAttempt, run_ok |-> FALSE, fallback |-> FALSE,
     concat_seen |-> NoAttempt,
     invocations |-> 0, sleeps |-> 0, concats |-> 0, silences |-> 0,
     response |-> NoResponse]

Touch(t, entries) == touched' = touched \cup { <<t, e[1], e[2], e[3]>> : e \in entries }

\* lines 111-115: the handler starts, draws its identifier and awaits the upload
ChatStart(t, image) ==
    /\ running = NoTurn
    /\ turn[t].pc = "idle"
    /\ turn' = [turn EXCEPT ![t].pc = "read_audio", ![t].req_id = t,
                            ![t].image = image]
    /\ UNCHANGED <<fs, running, touched, call>>

\* lines 114-120: the upload is written; an image, when sent, is awaited
SaveAudio(t) ==
    LET audio_path == AudioPath(turn[t].req_id) IN
    /\ running = NoTurn
    /\ turn[t].pc = "read_audio"
    /\ fs' = (audio_path :> File("upload", 1)) @@ fs
    /\ Touch(t, {<<"upload", 0, audio_path>>})
    /\ turn' = [turn EXCEPT ![t].pc =
                   IF turn[t].image = "none" THEN "transcode" ELSE "read_image"]
    /\ running' = IF turn[t].image = "none" THEN t ELSE NoTurn
    /\ UNCHANGED call

\* lines 120-123: the image is written when it has bytes
SaveImage(t) ==
    LET image_path == ImagePath(turn[t].req_id) IN
    /\ running = NoTurn
    /\ turn[t].pc = "read_image"
    /\ fs' = IF turn[t].image = "bytes"
             THEN (image_path :> File("image", 1)) @@ fs ELSE fs
    /\ touched' = IF turn[t].image = "bytes"
                  THEN touched \cup {<<t, "image", 0, image_path>>} ELSE touched
    /\ turn' = [turn EXCEPT ![t].pc = "transcode"]
    /\ running' = t
    /\ UNCHANGED call

\* lines 127-137: what chat() does with one run of the transcoder.  The except
\* clause of line 135 names FileNotFoundError and TimeoutExpired only: anything
\* else subprocess.run raises (PermissionError and the other OSErrors of
\* launching the process) leaves chat() as an exception.
TranscodeResult(kind, rc, exists) ==
    IF kind = "exit" THEN (IF rc # 0 \/ ~exists THEN "original" ELSE "normalized")
    ELSE IF kind \in {"notfound", "timeout"} THEN "original"
    ELSE "raise"

\* lines 126-137: ffmpeg to 16 kHz mono, or the upload itself on failure; an
\* exception that is not caught ends the handler without a response
Transcode(t, o) ==
    LET audio_path == AudioPath(turn[t].req_id)
        wav == WavPath(turn[t].req_id)
        fs1 == WriteBy(fs, wav, o, "wav16k")
        res == TranscodeResult(o.kind, o.rc, Exists(fs1, wav))
    IN
    /\ running = t
    /\ turn[t].pc = "transcode"
    /\ fs' = fs1
    /\ Touch(t, {<<"upload", 0, audio_path>>, <<"wav", 0, wav>>})
    /\ turn' = [turn EXCEPT
                   ![t].pc = IF res = "raise" THEN "aborted" ELSE "stt_call",
                   ![t].wav_path = IF res = "normalized" THEN wav
                                   ELSE IF res = "original" THEN audio_path
                                   ELSE @]
    /\ running' = IF res = "raise" THEN NoTurn ELSE running
    /\ UNCHANGED call

\* lines 172-179: the file is opened and the request is sent; httpx.post is
\* the synchronous client, the handler does not suspend
TranscribeCall(t) ==
    /\ running = t
    /\ turn[t].pc = "stt_call"
    /\ Touch(t, {<<IF turn[t].wav_path = WavPath(turn[t].req_id)
                   THEN "wav" ELSE "upload", 0, turn[t].wav_path>>})
    /\ turn' = [turn EXCEPT ![t].pc = "stt_pending"]
    /\ UNCHANGED <<fs, running, call>>

\* lines 180-185, then 142-143 and 197-243: the transcript is returned to
\* chat(), which hands it to get_openclaw_reply, which awaits the post
TranscribeReturn(t, o) ==
    LET transcription == TranscribeAudio(o) IN
    /\ running = t
    /\ turn[t].pc = "stt_pending"
    /\ turn' = [turn EXCEPT ![t].pc = "reply_pending",
                            ![t].transcription = transcription,
                            ![t].reply_arg = transcription]
    /\ running' = NoTurn
    /\ UNCHANGED <<fs, touched, call>>

\* lines 245-257: the chat-completion call ends and the reply text is returned
ReplyReturn(t, o) ==
    /\ running = NoTurn
    /\ turn[t].pc = "reply_pending"
    /\ turn' = [turn EXCEPT ![t].pc = "tts",
                            ![t].reply_text = OpenclawReply(o, turn[t].reply_arg)]
    /\ running' = t
    /\ UNCHANGED <<fs, touched, call>>

\* lines 146-148 and 324-337: generate_tts splits the text and enters
\* _run_edge_tts for the only chunk, or for chunk 0
GenerateTts(t) ==
    /\ running = t
    /\ turn[t].pc = "tts"
    /\ turn' = [turn EXCEPT ![t].pc = "edge_tts",
                            ![t].output_path = ReplyFilename(turn[t].req_id),
                            ![t].n_chunks = Len(SplitText(turn[t].reply_text, DefaultMaxLen)),
                            ![t].i = 0, ![t].attempt = 1]
    /\ UNCHANGED <<fs, running, touched, call>>

\* the path the current _run_edge_tts call writes
Target(t) ==
    IF turn[t].n_chunks = 1 THEN turn[t].output_path
    ELSE PartPath(turn[t].output_path, turn[t].i)

\* lines 266-293: one attempt of _run_edge_tts
EdgeTtsAttempt(t, o) ==
    LET target == Target(t)
        fs1 == WriteBy(fs, target, o, "edge_tts")
        seen == [kind |-> o.kind, rc |-> o.rc, exists |-> Exists(fs1, target),
                 size |-> SizeOf(fs1, target)]
        ok == o.kind = "exit" /\ AttemptSucceeded(o.rc, seen.exists, seen.size)
        step == RunEdgeTtsStep(o.kind, ok, turn[t].attempt, MaxRetries)
    IN
    /\ running = t
    /\ turn[t].pc = "edge_tts"
    /\ fs' = fs1
    /\ Touch(t, {<<IF turn[t].n_chunks = 1 THEN "reply" ELSE "part",
                   turn[t].i, target>>})
    /\ turn' = [turn EXCEPT
                   ![t].pc = IF step = "retry" THEN "edge_tts" ELSE "run_ret",
                   ![t].run_ok = (step = "return_true"),
                   ![t].last = seen,
                   ![t].invocations = @ + 1,
                   ![t].sleeps = IF step = "retry" THEN @ + 1 ELSE @,
                   ![t].attempt = IF step = "retry" THEN @ + 1 ELSE @]
    /\ UNCHANGED <<running, call>>

\* the loop of lines 336-343 that goes on to the next chunk after a failure
AfterChunkNoBreak(run_ok, i, n_chunks) ==
    IF i + 1 < n_chunks THEN "next_chunk"
    ELSE IF run_ok THEN "concat" ELSE "abort"

\* lines 336-345: the loop over the chunks after _run_edge_tts has returned
\* for chunk i: break on a failure, else the next chunk, else the concat
AfterChunk(run_ok, i, n_chunks) ==
    IF ~run_ok THEN "abort"
    ELSE IF i + 1 < n_chunks THEN "next_chunk" ELSE "concat"

\* lines 329-331 (one chunk) and 338-345, 370-371 (several): generate_tts
\* after _run_edge_tts has returned; the locals of _run_edge_tts are gone
RunReturn(t) ==
    LET r == turn[t]
        single == r.n_chunks = 1
        after == AfterChunk(r.run_ok, r.i, r.n_chunks)
        more == ~single /\ after = "next_chunk"
    IN
    /\ running = t
    /\ r.pc = "run_ret"
    /\ turn' = [turn EXCEPT
                   ![t].pc = IF single
                             THEN (IF r.run_ok THEN "tts_done" ELSE "silence")
                             ELSE IF after = "abort" THEN "silence"
                             ELSE IF after = "next_chunk" THEN "edge_tts"
                             ELSE "concat",
                   ![t].part_paths = IF ~single /\ r.run_ok
                                     THEN Append(@, Target(t)) ELSE @,
                   ![t].i = IF more THEN @ + 1 ELSE @,
                   ![t].attempt = IF more THEN 1 ELSE 0,
                   ![t].last = NoAttempt]
    /\ fs' = IF ~single /\ after = "abort"
             THEN Unlink(fs, Range(r.part_paths)) ELSE fs
    /\ UNCHANGED <<running, touched, call>>

\* lines 345-351: all chunks are there, the manifest is written
WriteManifest(t) ==
    LET r == turn[t]
        list_file == ListFile(r.output_path)
    IN
    /\ running = t
    /\ r.pc = "concat"
    /\ fs' = (list_file :> Manifest(r.part_paths)) @@ fs
    /\ Touch(t, {<<"manifest", 0, list_file>>})
    /\ turn' = [turn EXCEPT ![t].pc = "concat_run"]
    /\ UNCHANGED <<running, call>>

\* lines 352-371: ffmpeg concatenates the parts; the part-files are removed,
\* and the manifest too when the concat is accepted
ConcatParts(t, o) ==
    LET r == turn[t]
        list_file == ListFile(r.output_path)
        fs2 == WriteBy(fs, r.output_path, o, "concat")
        seen == [kind |-> o.kind, rc |-> o.rc, exists |-> Exists(fs2, r.output_path),
                 size |-> SizeOf(fs2, r.output_path)]
        ok == o.kind = "exit" /\ ConcatSucceeded(o.rc, seen.exists, seen.size)
    IN
    /\ running = t
    /\ r.pc = "concat_run"
    /\ fs' = IF ok THEN Unlink(fs2, Range(r.part_paths) \cup {list_file})
             ELSE Unlink(fs2, Range(r.part_paths))
    /\ Touch(t, {<<"reply", 0, r.output_path>>})
    /\ turn' = [turn EXCEPT ![t].pc = IF ok THEN "tts_done" ELSE "silence",
                            ![t].concat_seen = seen,
                            ![t].concats = @ + 1]
    /\ UNCHANGED <<running, call>>

\* lines 375 and 380-393: ffmpeg writes half a second of silence
SilentMp3(t, o) ==
    LET r == turn[t]
        fs1 == WriteBy(fs, r.output_path, o, "silence")
        accepted == o.kind = "exit"
                    /\ SilentAccepted(Exists(fs1, r.output_path),
                                      SizeOf(fs1, r.output_path))
    IN
    /\ running = t
    /\ r.pc = "silence"
    /\ fs' = fs1
    /\ Touch(t, {<<"reply", 0, r.output_path>>})
    /\ turn' = [turn EXCEPT ![t].pc = IF accepted THEN "tts_done" ELSE "silent_wav",
                            ![t].fallback = TRUE,
                            ![t].silences = @ + 1]
    /\ UNCHANGED <<running, call>>

\* lines 395-403: the silent WAV is written to the same path
SilentWav(t) ==
    /\ running = t
    /\ turn[t].pc = "silent_wav"
    /\ fs' = (turn[t].output_path :> SilentWavFile) @@ fs
    /\ Touch(t, {<<"reply", 0, turn[t].output_path>>})
    /\ turn' = [turn EXCEPT ![t].pc = "tts_done"]
    /\ UNCHANGED <<running, call>>

\* lines 150-154: the response is returned
ChatReturn(t) ==
    /\ running = t
    /\ turn[t].pc = "tts_done"
    /\ turn' = [turn EXCEPT
                   ![t].pc = "delivered",
                   ![t].response = ChatResponse(turn[t].reply_text,
                                                ReplyFilename(turn[t].req_id),
                                                turn[t].transcription)]
    /\ running' = NoTurn
    /\ UNCHANGED <<fs, touched, call>>

(***************************************************************************)
(* GET /audio/{filename}: get_audio (server.py 157-164)                    *)
(***************************************************************************)
\* Path(filename).name: what follows the last "/"
SafeName(filename) ==
    LET slashes == { k \in 1..Len(filename) : filename[k] = "/" }
        last == IF slashes = {} THEN 0
                ELSE CHOOSE k \in slashes : \A j \in slashes : j <= k
    IN  SubSeq(filename, last + 1, Len(filename))

\* str.endswith
EndsWith(s, suffix) ==
    /\ Len(suffix) <= Len(s)
    /\ SubSeq(s, Len(s) - Len(suffix) + 1, Len(s)) = suffix

\* get_audio that answers audio/wav whatever the name
MediaTypeWav(safe_name) == "audio/wav"

\* line 163
MediaType(safe_name) ==
    IF EndsWith(safe_name, Mp3Suffix) THEN "audio/mpeg" ELSE "audio/wav"

NoFile == File("none", 0)

\* lines 159-164
GetAudioResponse(files, filename) ==
    LET safe_name == SafeName(filename) IN
    IF ~Exists(files, safe_name)
    THEN [status |-> 404, media |-> "application/json", file |-> NoFile]
    ELSE [status |-> 200, media |-> MediaType(safe_name), file |-> files[safe_name]]

\* get_audio has no await: it runs when the event loop is free
GetAudio(filename) ==
    /\ running = NoTurn
    /\ call' = [fn |-> "get_audio", text |-> filename, max_len |-> 0,
                outcome |-> HttpTimeout,
                result |-> GetAudioResponse(fs, filename), done |-> TRUE]
    /\ UNCHANGED <<turn, fs, running, touched>>

(***************************************************************************)
(* The specifications.                                                     *)
(*   Spec     one request from its arrival to its response; every outcome  *)
(*            of the transcoder and of the two services, and of each       *)
(*            synthesis tool the outcomes that take a different branch.    *)
(*   SpecTts  generate_tts of one request under every outcome of edge-tts  *)
(*            and ffmpeg, from the states in which chat() calls it.        *)
(*   SpecConc MaxTurns requests on one event loop, each tool either        *)
(*            working or failing.                                          *)
(***************************************************************************)
Images == {"none", "empty", "bytes"}
ToolSizes == {0, MinAudioBytes, MinAudioBytes + 1}
ToolOutcomes ==
    { ToolExit(rc, FALSE, 0) : rc \in {0, 1} }
    \cup { ToolExit(rc, TRUE, size) : rc \in {0, 1}, size \in ToolSizes }
    \cup { ToolTimeout(FALSE, 0), ToolTimeout(TRUE, MinAudioBytes + 1), ToolNotFound }
EdgeTtsOutcomes == ToolOutcomes \cup {ToolError}
TranscodeOutcomes ==
    { ToolExit(rc, FALSE, 0) : rc \in {0, 1} }
    \cup { ToolExit(rc, TRUE, 1) : rc \in {0, 1} }
    \cup { ToolTimeout(FALSE, 0), ToolNotFound, ToolError }

Works == ToolExit(0, TRUE, MinAudioBytes + 1)
Undersized == ToolExit(0, TRUE, MinAudioBytes)
Fails == ToolExit(1, FALSE, 0)
BranchOutcomes == {Works, Undersized, Fails, ToolTimeout(FALSE, 0), ToolNotFound}

OneTurn == { Uuid(1) }
ConcTurns == { Uuid(k) : k \in 1..MaxTurns }

InitTurns(ids) ==
    /\ turn = [t \in ids |-> IdleTurn]
    /\ fs = << >>
    /\ running = NoTurn
    /\ touched = {}
    /\ call = NoCall

Init == InitTurns(OneTurn)

Next ==
    \E t \in OneTurn :
        \/ \E image \in Images : ChatStart(t, image)
        \/ SaveAudio(t)
        \/ SaveImage(t)
        \/ \E o \in TranscodeOutcomes : Transcode(t, o)
        \/ TranscribeCall(t)
        \/ \E o \in SttOutcomes : TranscribeReturn(t, o)
        \/ \E o \in ReplyOutcomes : ReplyReturn(t, o)
        \/ GenerateTts(t)
        \/ \E o \in BranchOutcomes : EdgeTtsAttempt(t, o)
        \/ RunReturn(t)
        \/ WriteManifest(t)
        \/ \E o \in BranchOutcomes : ConcatParts(t, o)
        \/ \E o \in BranchOutcomes : SilentMp3(t, o)
        \/ SilentWav(t)
        \/ ChatReturn(t)

Spec == Init /\ [][Next]_vars

\* The same request on a running event loop: a handler that can take its next
\* step takes it.  Every wait of the handler is bounded (subprocess.run with
\* timeout=30 and timeout=10, httpx with timeout=15 and timeout=60), so none
\* of the steps can be postponed for ever.
SpecLive == Init /\ [][Next]_vars /\ WF_vars(Next)

\* chat() at line 146 of a request without image whose upload was transcoded
\* and transcribed as "h": every reply text get_openclaw_reply can return
TtsTexts == { OpenclawReply(o, <<"h">>) : o \in ReplyOutcomes }

InitTts ==
    /\ \E text \in TtsTexts :
          turn = [t \in OneTurn |->
                    [IdleTurn EXCEPT !.pc = "tts", !.req_id = t,
                                     !.wav_path = WavPath(t),
                                     !.transcription = <<"h">>,
                                     !.reply_arg = <<"h">>,
                                     !.reply_text = text]]
    /\ fs = [n \in { AudioPath(t) : t \in OneTurn } \cup { WavPath(t) : t \in OneTurn } |->
                IF n \in { AudioPath(t) : t \in OneTurn }
                THEN File("upload", 1) ELSE File("wav16k", 1)]
    /\ running \in OneTurn
    /\ touched = { <<t, "upload", 0, AudioPath(t)>> : t \in OneTurn }
                 \cup { <<t, "wav", 0, WavPath(t)>> : t \in OneTurn }
    /\ call = NoCall

NextTts ==
    \E t \in OneTurn :
        \/ GenerateTts(t)
        \/ \E o \in EdgeTtsOutcomes : EdgeTtsAttempt(t, o)
        \/ RunReturn(t)
        \/ WriteManifest(t)
        \/ \E o \in ToolOutcomes : ConcatParts(t, o)
        \/ \E o \in ToolOutcomes : SilentMp3(t, o)
        \/ SilentWav(t)
        \/ ChatReturn(t)

SpecTts == InitTts /\ [][NextTts]_vars

\* generate_tts on a running event loop: subprocess.run returns or raises
\* within its timeout, time.sleep(1) ends
SpecTtsLive == InitTts /\ [][NextTts]_vars /\ WF_vars(NextTts)

ConcImages == {"none", "bytes"}
ConcSttOutcomes == { HttpResponse(200, JStr(<<"h">>)) }
ConcReplyOutcomes ==
    { HttpResponse(200, JStr(<<"o">>)), HttpResponse(200, JStr(Sentence \o Sentence)) }

InitConc == InitTurns(ConcTurns)

NextConc ==
    \E t \in ConcTurns :
        \/ \E image \in ConcImages : ChatStart(t, image)
        \/ SaveAudio(t)
        \/ SaveImage(t)
        \/ \E o \in {Works, ToolNotFound} : Transcode(t, o)
        \/ TranscribeCall(t)
        \/ \E o \in ConcSttOutcomes : TranscribeReturn(t, o)
        \/ \E o \in ConcReplyOutcomes : ReplyReturn(t, o)
        \/ GenerateTts(t)
        \/ \E o \in {Works, ToolNotFound} : EdgeTtsAttempt(t, o)
        \/ RunReturn(t)
        \/ WriteManifest(t)
        \/ \E o \in {Works, Fails} : ConcatParts(t, o)
        \/ \E o \in {ToolNotFound} : SilentMp3(t, o)
        \/ SilentWav(t)
        \/ ChatReturn(t)

SpecConc == InitConc /\ [][NextConc]_vars

\* generate_tts as in SpecTts, and a client that asks get_audio for the
\* artifact, for the other files of the request and for a name that is not there
AudioRequests ==
    { ReplyFilename(t) : t \in OneTurn } \cup { WavPath(t) : t \in OneTurn }
    \cup { AudioPath(t) : t \in OneTurn }
    \cup { <<".", ".", "/">> \o ReplyFilename(t) : t \in OneTurn }
    \cup { <<"x">> \o Mp3Suffix }

NextServe ==
    \/ NextTts
    \/ \E filename \in AudioRequests : GetAudio(filename)

SpecServe == InitTts /\ [][NextServe]_vars

(***************************************************************************)
(* The claims                                                              *)
(***************************************************************************)
\* C3: the chunks _split_text returns concatenate, in order, to the input text,
\* and each chunk is at most max_len long (max_len >= 1).
SplitRoundTripAndBound ==
    (call.fn = "_split_text" /\ call.done) =>
        /\ Concat(call.result, 1) = call.text
        /\ \A k \in 1..Len(call.result) : Len(call.result[k]) <= call.max_len

\* a text longer than max_len was split at a sentence end and hard-sliced
SplitRoundTripWitness ==
    /\ call.fn = "_split_text" /\ call.done
    /\ call.text = <<"a", ".", "b", "b", "b">>
    /\ call.max_len = 2
    /\ call.result = << <<"a", ".">>, <<"b", "b">>, <<"b">> >>

\* C4: a text no longer than max_len (the empty text too) comes back as exactly
\* one chunk, the text itself.
SplitShortIsOneChunk ==
    (call.fn = "_split_text" /\ call.done /\ Len(call.text) <= call.max_len) =>
        call.result = << call.text >>

\* the empty text came back as one empty chunk
SplitShortWitness ==
    /\ call.fn = "_split_text" /\ call.done
    /\ call.text = << >>
    /\ call.result = << << >> >>

\* generate_tts (and chat) has returned for t
TtsReturned(t) == turn[t].pc \in {"tts_done", "delivered"}

\* C1: when chat() returns its response, the file <id>_reply.mp3 exists and is
\* larger than the synthesizer's threshold of 1000 bytes, whatever edge-tts
\* and ffmpeg did.
ArtifactAboveThresholdAtResponse ==
    \A t \in DOMAIN turn :
        turn[t].pc = "delivered" =>
            /\ Exists(fs, ReplyFilename(t))
            /\ SizeOf(fs, ReplyFilename(t)) > MinAudioBytes

\* C2: one chunk, _run_edge_tts out of retries: the file generate_tts returns
\* with was written by the fallback (the compressed silence or the silent
\* waveform), never by a failed synthesis attempt.
ExhaustedSingleChunkLeavesFallbackFile ==
    \A t \in DOMAIN turn :
        (TtsReturned(t) /\ turn[t].n_chunks = 1 /\ ~turn[t].run_ok) =>
            /\ Exists(fs, turn[t].output_path)
            /\ fs[turn[t].output_path].kind \in {"silence", "silent_wav"}

\* a RIFF/WAVE file of 16000 Hz mono 16-bit PCM whose sizes agree with its length
ValidSilentWav(f) ==
    /\ f.hdr # NoHeader
    /\ f.size > 0
    /\ f.hdr.riff = "RIFF" /\ f.hdr.wave = "WAVE"
    /\ f.hdr.riff_size = f.size - 8
    /\ f.hdr.fmt_size = 16 /\ f.hdr.format = 1
    /\ f.hdr.channels = 1 /\ f.hdr.sample_rate = 16000 /\ f.hdr.bits = 16
    /\ f.hdr.block_align * 8 = f.hdr.channels * f.hdr.bits
    /\ f.hdr.byte_rate = f.hdr.sample_rate * f.hdr.block_align
    /\ f.hdr.data_size = f.size - (12 + 24 + 8)
    /\ f.hdr.data_size % f.hdr.block_align = 0

\* edge-tts failed on every attempt generate_tts made for t
EveryAttemptFailed(t) == ~turn[t].run_ok /\ turn[t].part_paths = << >>

\* C5 as stated: edge-tts failing on every attempt, generate_tts leaves a file
\* of more than 0 bytes that is a valid minimal waveform container.
AlwaysFailingTtsLeavesWav ==
    \A t \in DOMAIN turn :
        (TtsReturned(t) /\ EveryAttemptFailed(t)) =>
            /\ Exists(fs, turn[t].output_path)
            /\ ValidSilentWav(fs[turn[t].output_path])

\* C5 as the code has it: edge-tts failing on every attempt, generate_tts
\* leaves a file of more than 0 bytes; whenever the ffmpeg silence run raised
\* or left no non-empty file (the last-resort writer runs) the file is the
\* valid minimal waveform container, and otherwise it is the non-empty file
\* found at the path after the ffmpeg run.
AlwaysFailingTtsLeavesNonEmptyFile ==
    /\ [](\A t \in DOMAIN turn :
            (TtsReturned(t) /\ EveryAttemptFailed(t)) =>
                /\ Exists(fs, turn[t].output_path)
                /\ fs[turn[t].output_path].size > 0
                /\ fs[turn[t].output_path].kind = "silent_wav"
                      => ValidSilentWav(fs[turn[t].output_path]))
    /\ [][\A t \in DOMAIN turn :
            (turn[t].pc = "silent_wav" /\ turn'[t] # turn[t]) =>
                /\ TtsReturned(t)'
                /\ Exists(fs', turn[t].output_path)
                /\ ValidSilentWav(fs'[turn[t].output_path])]_vars
    /\ [][\A t \in DOMAIN turn :
            (turn[t].pc = "silence" /\ turn'[t].pc = "tts_done") =>
                /\ Exists(fs', turn[t].output_path)
                /\ fs'[turn[t].output_path].size > 0]_vars

\* edge-tts failed on all max_retries attempts and the ffmpeg silence run left
\* nothing usable: the 16044-byte silent waveform is the artifact
AlwaysFailingTtsWitness ==
    \E t \in DOMAIN turn :
        /\ turn[t].pc = "tts_done" /\ EveryAttemptFailed(t)
        /\ turn[t].invocations = MaxRetries
        /\ Exists(fs, turn[t].output_path)
        /\ fs[turn[t].output_path].kind = "silent_wav"
        /\ fs[turn[t].output_path].size = 16044

\* an attempt whose tool exited 0 and left more than the threshold at its path
GoodAttempt(a) == a.kind = "exit" /\ a.rc = 0 /\ a.exists /\ a.size > MinAudioBytes

\* C6: a successful attempt among the first 3 ends _run_edge_tts with success and
\* no attempt follows it; for one chunk generate_tts then returns without the
\* silence fallback and the synthesized file is the artifact.
SuccessEndsRetriesWithoutFallback ==
    \A t \in DOMAIN turn :
        /\ turn[t].pc = "edge_tts" => ~GoodAttempt(turn[t].last)
        /\ turn[t].pc \in {"edge_tts", "run_ret"} => turn[t].attempt <= MaxRetries
        /\ (turn[t].pc = "run_ret" /\ GoodAttempt(turn[t].last)) => turn[t].run_ok
        /\ (turn[t].n_chunks = 1 /\ turn[t].run_ok
                /\ turn[t].pc \in {"run_ret", "tts_done", "delivered"}) =>
              /\ ~turn[t].fallback /\ turn[t].silences = 0
              /\ turn[t].invocations <= MaxRetries
              /\ Exists(fs, turn[t].output_path)
              /\ fs[turn[t].output_path].kind = "edge_tts"
              /\ fs[turn[t].output_path].size > MinAudioBytes

\* edge-tts failed once and then succeeded: two invocations, no fallback
FailOnceThenSucceedWitness ==
    \E t \in DOMAIN turn :
        /\ turn[t].pc = "tts_done" /\ turn[t].n_chunks = 1
        /\ turn[t].run_ok /\ turn[t].invocations = 2 /\ turn[t].sleeps = 1
        /\ ~turn[t].fallback
        /\ fs[turn[t].output_path].kind = "edge_tts"

\* C7: get_openclaw_reply returns a non-empty text for every end of the
\* chat-completion call (it has no branch that raises).
ReplyTextNeverEmpty ==
    (call.fn = "get_openclaw_reply" /\ call.done) => call.result # << >>

\* C8: when the chat-completion call times out, the text get_openclaw_reply
\* returns contains the transcript.
TimeoutReplyEchoesTranscript ==
    (call.fn = "get_openclaw_reply" /\ call.done /\ call.outcome.kind = "timeout") =>
        Contains(call.result, call.text)

\* the call timed out for the transcript "[STT error: 500]"
TimeoutReplyWitness ==
    /\ call.fn = "get_openclaw_reply" /\ call.done
    /\ call.outcome.kind = "timeout"
    /\ call.text = SttErrorPrefix \o <<"5", "0", "0", "]">>
    /\ call.result = HeardPrefix \o call.text \o TookTooLong

\* C9: transcribe_audio returns a non-empty transcript for every end of the
\* transcription call; chat() hands exactly that transcript to
\* get_openclaw_reply and returns it as the response's transcription.
TranscriptNonEmptyAndPassedOn ==
    \A t \in DOMAIN turn :
        /\ turn[t].pc \notin {"idle", "read_audio", "read_image", "transcode",
                              "stt_call", "stt_pending", "aborted"} =>
              /\ turn[t].transcription # << >>
              /\ turn[t].reply_arg = turn[t].transcription
        /\ turn[t].pc = "delivered" =>
              turn[t].response.transcription = turn[t].reply_arg

\* HTTP 500 from the transcription service: the placeholder went to the reply
\* stage and into the response
SttErrorPassedOnWitness ==
    \E t \in DOMAIN turn :
        /\ turn[t].pc = "delivered"
        /\ turn[t].transcription = SttErrorPrefix \o <<"5", "0", "0", "]">>
        /\ turn[t].reply_arg = turn[t].transcription
        /\ turn[t].response.transcription = turn[t].transcription

\* C10: whatever the interleaving, a file name in AUDIO_DIR is addressed by one
\* request only, and within a request by one role only (upload, image,
\* normalized waveform, part-file i, manifest, artifact).
NoSharedFileName ==
    \A e1 \in touched, e2 \in touched :
        (<<e1[1], e1[2], e1[3]>> # <<e2[1], e2[2], e2[3]>>) => e1[4] # e2[4]

\* two requests have both synthesized two parts and concatenated them
TwoTurnsAllRolesWitness ==
    \E t1 \in DOMAIN turn, t2 \in DOMAIN turn :
        /\ t1 # t2
        /\ \A t \in {t1, t2} :
              /\ turn[t].pc = "delivered"
              /\ { e[2] : e \in { x \in touched : x[1] = t } }
                    = {"upload", "image", "wav", "part", "manifest", "reply"}
              /\ \E x \in touched : x[1] = t /\ x[2] = "part" /\ x[3] = 1
\* the state of the spec's Turn machine the handler is in (0: no Turn yet,
\* 1 received .. 6 delivered; 7: the handler was left by an exception)
Stage(pc) ==
    CASE pc = "idle" -> 0
      [] pc \in {"read_audio", "read_image", "transcode"} -> 1
      [] pc \in {"stt_call", "stt_pending"} -> 2
      [] pc = "reply_pending" -> 3
      [] pc \in {"tts", "edge_tts", "run_ret", "concat", "concat_run",
                  "silence", "silent_wav"} -> 4
      [] pc = "tts_done" -> 5
      [] pc = "delivered" -> 6
      [] OTHER -> 7

\* C11: a Turn goes through received, transcoded, transcribed, replied,
\* synthesized, delivered in that order, one state at a time and never back,
\* and a Turn that was received is eventually delivered whatever the
\* transcoder, the two services and the synthesis tools do.
TurnsRunInOrderToDelivery ==
    /\ [][\A t \in DOMAIN turn :
            \/ Stage(turn'[t].pc) = Stage(turn[t].pc)
            \/ /\ Stage(turn'[t].pc) = Stage(turn[t].pc) + 1
               /\ Stage(turn'[t].pc) <= 6]_vars
    /\ \A t \in OneTurn : (turn[t].pc # "idle") ~> (turn[t].pc = "delivered")

\* the next step of the handler of u, whatever it is
HandlerStep(u) ==
    \/ \E image \in ConcImages : ChatStart(u, image)
    \/ SaveAudio(u)
    \/ SaveImage(u)
    \/ \E o \in {Works, ToolNotFound} : Transcode(u, o)
    \/ TranscribeCall(u)
    \/ \E o \in ConcSttOutcomes : TranscribeReturn(u, o)
    \/ \E o \in ConcReplyOutcomes : ReplyReturn(u, o)
    \/ GenerateTts(u)
    \/ \E o \in {Works, ToolNotFound} : EdgeTtsAttempt(u, o)
    \/ RunReturn(u)
    \/ WriteManifest(u)
    \/ \E o \in {Works, Fails} : ConcatParts(u, o)
    \/ \E o \in {ToolNotFound} : SilentMp3(u, o)
    \/ SilentWav(u)
    \/ ChatReturn(u)

\* C12: while a Turn waits for the answer of the transcription service or of
\* the reply service, every other Turn that has not finished can take its
\* next step.
PendingCallLeavesOthersRunnable ==
    \A t \in ConcTurns, u \in ConcTurns :
        (t # u /\ turn[t].pc \in {"stt_pending", "reply_pending"}
               /\ turn[u].pc \notin {"delivered", "aborted"}) =>
            ENABLED HandlerStep(u)

\* the half of C12 the code has: a pending call to the reply service
PendingReplyLeavesOthersRunnable ==
    \A t \in ConcTurns, u \in ConcTurns :
        (t # u /\ turn[t].pc = "reply_pending"
               /\ turn[u].pc \notin {"delivered", "aborted"}) =>
            ENABLED HandlerStep(u)

\* C13: several chunks: when generate_tts has returned, by any of its ways out,
\* no part-file of the Turn (the failing chunk's included) and no concat
\* manifest of the Turn is left in AUDIO_DIR.
NoPartFileOrManifestLeft ==
    \A t \in DOMAIN turn :
        (TtsReturned(t) /\ turn[t].n_chunks > 1) =>
            /\ \A k \in 0..(turn[t].n_chunks - 1) :
                  ~Exists(fs, PartPath(turn[t].output_path, k))
            /\ ~Exists(fs, ListFile(turn[t].output_path))

\* the two halves of C13 on their own
NoManifestLeft ==
    \A t \in DOMAIN turn :
        (TtsReturned(t) /\ turn[t].n_chunks > 1) =>
            ~Exists(fs, ListFile(turn[t].output_path))

NoPartFileLeft ==
    \A t \in DOMAIN turn :
        (TtsReturned(t) /\ turn[t].n_chunks > 1) =>
            \A k \in 0..(turn[t].n_chunks - 1) :
                ~Exists(fs, PartPath(turn[t].output_path, k))

\* generate_tts is past its loop over the chunks
PastChunks(t) ==
    turn[t].pc \in {"concat", "concat_run", "silence", "silent_wav", "tts_done", "delivered"}

\* C14: several chunks: the chunks are synthesized in index order (chunk i is
\* attempted only when chunks 0..i-1 have succeeded); once a chunk is out of
\* retries no later chunk is attempted, no concat is run and the fallback is
\* invoked.
ChunksInOrderAbortAtFirstFailure ==
    /\ [](\A t \in DOMAIN turn : turn[t].n_chunks > 1 =>
            /\ turn[t].part_paths =
                  [k \in 1..Len(turn[t].part_paths) |-> PartPath(turn[t].output_path, k - 1)]
            /\ turn[t].pc \in {"edge_tts", "run_ret"} =>
                  turn[t].i = Len(turn[t].part_paths)
            /\ \A e \in touched : (e[1] = t /\ e[2] = "part") => e[3] <= turn[t].i
            /\ (PastChunks(t) /\ ~turn[t].run_ok) =>
                  /\ turn[t].concats = 0
                  /\ Len(turn[t].part_paths) = turn[t].i
                  /\ turn[t].i < turn[t].n_chunks
                  /\ turn[t].pc # "silence" => turn[t].fallback /\ turn[t].silences = 1)
    /\ [][\A t \in DOMAIN turn :
            (turn[t].n_chunks > 1 /\ turn[t].pc = "run_ret" /\ ~turn[t].run_ok
                /\ turn'[t] # turn[t]) => turn'[t].pc = "silence"]_vars
    /\ [][\A t \in DOMAIN turn :
            (turn[t].n_chunks > 1 /\ PastChunks(t)) =>
                turn'[t].invocations = turn[t].invocations]_vars

\* three chunks: chunk 0 was synthesized, chunk 1 ran out of retries, chunk 2
\* was never attempted and the fallback wrote the artifact
SecondChunkOfThreeFailedWitness ==
    \E t \in DOMAIN turn :
        /\ turn[t].pc = "tts_done" /\ turn[t].n_chunks = 3
        /\ turn[t].i = 1 /\ Len(turn[t].part_paths) = 1 /\ ~turn[t].run_ok
        /\ turn[t].invocations = 1 + MaxRetries
        /\ turn[t].concats = 0 /\ turn[t].fallback
        /\ \A e \in touched : e[2] = "part" => e[3] <= 1

\* the calls of _run_edge_tts that have returned
RunsReturned(t) == IF turn[t].pc = "edge_tts" THEN turn[t].i ELSE turn[t].i + 1

\* C15: a call of generate_tts returns, after at most 3 invocations of edge-tts
\* per chunk (at most 3 x number of chunks in all), at most one concat run and
\* at most one silence run; _run_edge_tts sleeps between two attempts only,
\* never after its last one.
SynthesisEndsWithinBoundedInvocations ==
    /\ [](\A t \in DOMAIN turn : turn[t].n_chunks >= 1 =>
            /\ turn[t].attempt <= 3
            /\ turn[t].invocations <= 3 * RunsReturned(t) + turn[t].attempt
            /\ turn[t].invocations <= 3 * turn[t].n_chunks
            /\ turn[t].invocations - turn[t].sleeps = RunsReturned(t)
            /\ turn[t].concats <= 1
            /\ turn[t].silences <= 1)
    /\ \A t \in OneTurn : (turn[t].pc = "tts") ~> (turn[t].pc = "tts_done")

\* three chunks, three invocations each: two chunks synthesized at the third
\* attempt, the last chunk out of retries
NineInvocationsWitness ==
    \E t \in DOMAIN turn :
        /\ turn[t].pc = "tts_done" /\ turn[t].n_chunks = 3
        /\ turn[t].invocations = 9 /\ turn[t].sleeps = 6
        /\ turn[t].concats = 0 /\ turn[t].silences = 1

\* the attempt _run_edge_tts has just made was taken as a success
TakenAsSuccess(t) == turn[t].pc = "run_ret" /\ turn[t].run_ok

\* C16 as stated: an attempt in which edge-tts ran is taken as failed exactly
\* when it exited non-zero, left no file, left a file smaller than 1000 bytes,
\* or timed out, and is then retried while attempts remain; exit 0 with a file
\* of 1000 bytes or more is a success.
AttemptFailsBelowThousandBytes ==
    \A t \in DOMAIN turn :
        turn[t].last.kind \in {"exit", "timeout"} =>
            LET a == turn[t].last
                failed == \/ a.kind = "timeout"
                          \/ a.rc # 0
                          \/ ~a.exists
                          \/ a.size < 1000
            IN  /\ TakenAsSuccess(t) <=> ~failed
                /\ (failed /\ turn[t].pc = "run_ret") => turn[t].attempt = 3

\* C16 as the code has it: an attempt is taken as failed exactly when edge-tts
\* exited non-zero, left no file, left a file of 1000 bytes or less, timed out,
\* or the run raised anything else; a failed attempt is retried while attempts
\* remain unless the binary was not found; exit 0 with a file of more than
\* 1000 bytes is a success.
AttemptFailsUpToThousandBytes ==
    \A t \in DOMAIN turn :
        turn[t].last.kind # "none" =>
            LET a == turn[t].last
                failed == \/ a.kind \in {"timeout", "error", "notfound"}
                          \/ a.rc # 0
                          \/ ~a.exists
                          \/ a.size <= 1000
            IN  /\ TakenAsSuccess(t) <=> ~failed
                /\ (failed /\ turn[t].pc = "run_ret" /\ a.kind # "notfound") =>
                      turn[t].attempt = 3

\* edge-tts exited 0 leaving exactly 1000 bytes at the first attempt: a second
\* attempt is about to be made
ThousandBytesRetriedWitness ==
    \E t \in DOMAIN turn :
        /\ turn[t].pc = "edge_tts" /\ turn[t].attempt = 2
        /\ turn[t].last = [kind |-> "exit", rc |-> 0, exists |-> TRUE, size |-> 1000]
        /\ turn[t].invocations = 1 /\ turn[t].sleeps = 1

\* C17: when the edge-tts binary is not found at an attempt, _run_edge_tts
\* returns False right after that invocation, without sleeping and without
\* another attempt, and generate_tts goes to the fallback, leaving the
\* remaining chunks unsynthesized.
EngineNotFoundIsNotRetried ==
    /\ [](\A t \in DOMAIN turn :
            turn[t].last.kind = "notfound" => turn[t].pc = "run_ret" /\ ~turn[t].run_ok)
    /\ [][\A t \in DOMAIN turn :
            (turn[t].pc = "edge_tts" /\ turn'[t].last.kind = "notfound"
                /\ turn'[t] # turn[t]) =>
                /\ turn'[t].sleeps = turn[t].sleeps
                /\ turn'[t].invocations = turn[t].invocations + 1]_vars
    /\ [][\A t \in DOMAIN turn :
            (turn[t].pc = "run_ret" /\ turn[t].last.kind = "notfound"
                /\ turn'[t] # turn[t]) =>
                /\ turn'[t].pc = "silence"
                /\ turn'[t].i = turn[t].i
                /\ turn'[t].concats = 0]_vars
    /\ [][\A t \in DOMAIN turn :
            turn[t].pc \in {"silence", "silent_wav", "tts_done"} =>
                /\ turn'[t].invocations = turn[t].invocations
                /\ turn'[t].sleeps = turn[t].sleeps]_vars

\* three chunks: chunk 0 synthesized at once, edge-tts gone at the first
\* attempt for chunk 1: two invocations, no sleep, no concat, the fallback ran
EngineVanishedAtSecondChunkWitness ==
    \E t \in DOMAIN turn :
        /\ turn[t].pc = "tts_done" /\ turn[t].n_chunks = 3 /\ turn[t].i = 1
        /\ turn[t].invocations = 2 /\ turn[t].sleeps = 0
        /\ turn[t].concats = 0 /\ turn[t].fallback /\ turn[t].silences = 1

\* the concat run of t was accepted by the test of line 360
ConcatAccepted(a) == a.kind = "exit" /\ a.rc = 0 /\ a.exists /\ a.size > 1000

\* C18: several chunks: the concat is run only when every chunk has been
\* synthesized; its manifest names every part-file once, in chunk order; the
\* result is accepted without fallback only if ffmpeg exited 0 and the
\* artifact exists with more than 1000 bytes, and otherwise the fallback runs.
ConcatOnlyAfterAllPartsAndVerified ==
    \A t \in DOMAIN turn : turn[t].n_chunks > 1 =>
        LET r == turn[t]
            parts == [k \in 1..r.n_chunks |-> PartPath(r.output_path, k - 1)]
        IN  /\ (r.pc \in {"concat", "concat_run"} \/ r.concats > 0) =>
                  /\ r.part_paths = parts
                  /\ r.run_ok
                  /\ r.invocations >= r.n_chunks
            /\ r.pc \in {"concat", "concat_run"} =>
                  /\ r.concats = 0
                  /\ \A k \in 1..r.n_chunks :
                        /\ Exists(fs, parts[k])
                        /\ fs[parts[k]].kind = "edge_tts"
                        /\ fs[parts[k]].size > 1000
            /\ r.pc = "concat_run" =>
                  /\ Exists(fs, ListFile(r.output_path))
                  /\ fs[ListFile(r.output_path)].lines = parts
                  /\ \A j \in 1..r.n_chunks, k \in 1..r.n_chunks :
                        j # k => parts[j] # parts[k]
            /\ r.concat_seen.kind # "none" =>
                  /\ r.concats = 1
                  /\ IF ConcatAccepted(r.concat_seen)
                     THEN /\ r.pc \in {"tts_done", "delivered"}
                          /\ ~r.fallback /\ r.silences = 0
                          /\ Exists(fs, r.output_path)
                          /\ fs[r.output_path].kind = "concat"
                          /\ fs[r.output_path].size > 1000
                     ELSE \/ r.pc = "silence"
                          \/ r.fallback /\ r.silences = 1

\* three parts were synthesized and concatenated, the result was accepted
ThreePartsConcatenatedWitness ==
    \E t \in DOMAIN turn :
        /\ turn[t].pc = "tts_done" /\ turn[t].n_chunks = 3
        /\ Len(turn[t].part_paths) = 3 /\ turn[t].concats = 1
        /\ ConcatAccepted(turn[t].concat_seen)
        /\ ~turn[t].fallback
        /\ fs[turn[t].output_path].kind = "concat"

\* C19: the transcoding stage never ends the Turn and has two outcomes: the
\* transcription reads the normalized waveform, which then exists, or it
\* reads the uploaded file.
TranscodeNeverAbortsTheTurn ==
    \A t \in DOMAIN turn :
        /\ turn[t].pc # "aborted"
        /\ turn[t].pc \in {"stt_call", "stt_pending"} =>
              /\ turn[t].wav_path \in {WavPath(t), AudioPath(t)}
              /\ Exists(fs, turn[t].wav_path)
        /\ turn[t].pc = "stt_pending" =>
              \E e \in touched : e[1] = t /\ e[4] = turn[t].wav_path

\* C19 without the uncaught exception: what is left of it holds
TranscodeOutcomeIsReadByTranscription ==
    \A t \in DOMAIN turn :
        /\ turn[t].pc \in {"stt_call", "stt_pending"} =>
              /\ turn[t].wav_path \in {WavPath(t), AudioPath(t)}
              /\ Exists(fs, turn[t].wav_path)
        /\ turn[t].pc = "stt_pending" =>
              \E e \in touched : e[1] = t /\ e[4] = turn[t].wav_path

\* C20: the response always refers to /audio/<id>_reply.mp3, whichever tier
\* wrote the file, and get_audio serves that name as audio/mpeg whatever the
\* container of the file is: the silent RIFF/WAVE file too.
ArtifactAlwaysServedAsMpeg ==
    \A t \in DOMAIN turn : turn[t].pc = "delivered" =>
        /\ turn[t].response.audio_url = AudioUrlPrefix \o t \o ReplySuffix
        /\ (call.fn = "get_audio"
                /\ AudioUrlPrefix \o call.text = turn[t].response.audio_url) =>
              /\ call.result.status = 200
              /\ call.result.media = "audio/mpeg"
              /\ call.result.file = fs[turn[t].output_path]

\* the artifact is the silent RIFF/WAVE file and was served as audio/mpeg
SilentWavServedAsMpegWitness ==
    \E t \in DOMAIN turn :
        /\ turn[t].pc = "delivered"
        /\ call.fn = "get_audio"
        /\ AudioUrlPrefix \o call.text = turn[t].response.audio_url
        /\ call.result.status = 200
        /\ call.result.media = "audio/mpeg"
        /\ call.result.file.kind = "silent_wav"
        /\ call.result.file.hdr # NoHeader
        /\ call.result.file.hdr.riff = "RIFF"

====
